---- MODULE Spec2Model ----
(***************************************************************************)
(* Model of the MMForecasting compute service:                             *)
(*   - DataProcessor.clean_and_process   (app/services/data/processing.py) *)
(*   - DataIngestion                      (app/services/data/ingestion.py) *)
(*   - process start-up and run_compute_job                      (main.py) *)
(*                                                                         *)
(* Three specifications share the module: SpecProc (processing), SpecIngest*)
(* (ingestion) and Spec (start-up and the run handler).  Each one moves    *)
(* only its own variables; the others rest at their idle values.           *)
(*                                                                         *)
(* Conventions of the processing model.  A date is an integer day number,  *)
(* day 0 being a Monday.  A DataFrame is a record [columns, rows]; a row   *)
(* is a function from the frame's columns to values.  Prices are integers. *)
(* ln(p/q) is kept as the tagged reduced fraction <<"fin", n, d>>, so two  *)
(* log returns are equal exactly when the price ratios are equal and a log *)
(* return is positive exactly when n > d.  The rolling standard deviation  *)
(* is kept as the window of 21 log returns it is computed from.  Floating  *)
(* point rounding is not modelled.  Raw cells are never null.              *)
(***************************************************************************)
EXTENDS Integers, Sequences, FiniteSets, TLC

VARIABLES
    \* ---- processing (SpecProc)
    raw,        \* the frame handed to clean_and_process
    cleaned,    \* rows after line 17 (sorted, de-duplicated, close > 0)
    aligned,    \* rows after line 26 (re-indexed, forward-filled, nulls dropped)
    out,        \* result of clean_and_process(raw)
    out2,       \* result of clean_and_process(out.frame)
    ppc,        \* "raw" | "processed" | "reprocessed"
    \* ---- ingestion (SpecIngest)
    ingEnv,     \* the Alpaca environment variables that are set
    alpaca,     \* DataIngestion.alpaca: "None" | "client"
    ipc,        \* "new" | "ready" | "returned"
    call,       \* the fetch_data call made and how it ended
    provCalls,  \* the provider calls fetch_data issued
    warned,     \* the warnings __init__ logged
    \* ---- service (Spec)
    env,        \* the environment variables that are set
    proc,       \* main.py: "init" | "stopped" | "serving"
    provider,   \* what the market-data provider holds for the run: "zero" | "rows"
    pc,         \* position of the run_compute_job execution
    payload,    \* RunRequest.run_id as received
    run_id,     \* payload.run_id.strip()
    sb,         \* whether supabase() created a store client
    runRow,     \* the row of table runs the store holds
    results,    \* models with a row in run_results
    timeseries, \* rows in run_timeseries
    mi,         \* position of the loop over models
    log,        \* the store calls issued, in order
    caught,     \* the exception the except clause caught
    response    \* the HTTP response

procVars == <<raw, cleaned, aligned, out, out2, ppc>>

ingVars == <<ingEnv, alpaca, ipc, call, provCalls, warned>>

svcVars == <<env, proc, provider, pc, payload, run_id, sb, runRow, results,
             timeseries, mi, log, caught, response>>

vars == <<procVars, ingVars, svcVars>>

\* ------------------------------------------------------------------------
\* Bounds of the model
\* ------------------------------------------------------------------------
MaxRows == 3      \* longest arbitrary raw input
MaxDay == 9       \* last day of the arbitrary raw inputs
MaxN == 44        \* longest generated business-day series

\* ------------------------------------------------------------------------
\* Program constants
\* ------------------------------------------------------------------------
FfillLimit == 5
Window == 21

\* ------------------------------------------------------------------------
\* Calendar
\* ------------------------------------------------------------------------
IsBusinessDay(d) == (d % 7) < 5

\* pd.date_range(start, end, freq='B'): the weekdays of [start, end], ascending
BusinessRange(start, end) ==
    IF end < start THEN <<>>
    ELSE SelectSeq([i \in 1..(end - start + 1) |-> start + i - 1], IsBusinessDay)

\* the k-th business day (k >= 0) counted from Monday 0
BDay(k) == 7 * (k \div 5) + (k % 5)

\* ------------------------------------------------------------------------
\* Frames
\* ------------------------------------------------------------------------
Frame(cols, rows) == [columns |-> cols, rows |-> rows]

Dates(rows) == {rows[i]["date"] : i \in 1..Len(rows)}

SetMin(S) == CHOOSE x \in S : \A y \in S : x <= y

SetMax(S) == CHOOSE x \in S : \A y \in S : y <= x

\* ------------------------------------------------------------------------
\* 1. Basic cleaning (processing.py lines 16-17)
\* ------------------------------------------------------------------------
RECURSIVE PickPerDate(_, _, _)
\* every way of keeping one row per date, dates ascending
PickPerDate(rows, sd, i) ==
    IF i > Len(sd) THEN {<<>>}
    ELSE LET cand == {j \in 1..Len(rows) : rows[j]["date"] = sd[i]}
             rest == PickPerDate(rows, sd, i + 1)
         IN  {<<rows[j]>> \o r : j \in cand, r \in rest}

\* df.sort_values('date').drop_duplicates(subset=['date']).  sort_values uses
\* the default kind='quicksort', which is not a stable sort: which of several
\* rows of one date comes first, and so is kept, depends on the build.  The
\* result is any choice of one row per date, in ascending date order.
SortDedup(rows) ==
    LET ds == Dates(rows)
        sd == IF ds = {} THEN <<>>
              ELSE SelectSeq([i \in 1..(SetMax(ds) - SetMin(ds) + 1) |-> SetMin(ds) + i - 1],
                             LAMBDA d : d \in ds)
    IN  PickPerDate(rows, sd, 1)

\* df[df['close'] > 0]
PositiveClose(rows) == SelectSeq(rows, LAMBDA r : r["close"] > 0)

\* ------------------------------------------------------------------------
\* 2. Date alignment (processing.py lines 20-26)
\* ------------------------------------------------------------------------
\* df.reindex(full_range): per calendar entry the position of its row in
\* rows, or 0 where the date has no row (all columns null)
Reindex(rows, range) ==
    LET ds == Dates(rows)
    IN  [i \in 1..Len(range) |->
            IF range[i] \in ds
            THEN CHOOSE j \in 1..Len(rows) : rows[j]["date"] = range[i]
            ELSE 0]

\* variant of Ffill that fills a run of nulls only when the whole run is at
\* most FfillLimit long
FfillWholeRunOnly(src) ==
    [i \in 1..Len(src) |->
        IF src[i] # 0 THEN src[i]
        ELSE LET valid == {j \in 1..(i - 1) : src[j] # 0}
                 after == {j \in (i + 1)..Len(src) : src[j] # 0}
             IN  IF valid = {} THEN 0
                 ELSE LET last == SetMax(valid)
                          next == IF after = {} THEN Len(src) + 1 ELSE SetMin(after)
                      IN  IF next - last - 1 <= FfillLimit THEN src[last] ELSE 0]

\* df.ffill(limit=5): a null entry takes the last valid entry before it when
\* at most FfillLimit positions separate them
Ffill(src) ==
    [i \in 1..Len(src) |->
        IF src[i] # 0 THEN src[i]
        ELSE LET valid == {j \in 1..(i - 1) : src[j] # 0}
             IN  IF valid = {} THEN 0
                 ELSE LET last == SetMax(valid)
                      IN  IF i - last <= FfillLimit THEN src[last] ELSE 0]

\* df.dropna() on the re-indexed, forward-filled frame
Align(rows) ==
    LET ds == Dates(rows)
        range == BusinessRange(SetMin(ds), SetMax(ds))
        filled == Ffill(Reindex(rows, range))
        keep == SelectSeq([i \in 1..Len(range) |-> i], LAMBDA i : filled[i] # 0)
    IN  [k \in 1..Len(keep) |->
            [rows[filled[keep[k]]] EXCEPT !["date"] = range[keep[k]]]]

\* ------------------------------------------------------------------------
\* 3. Base features (processing.py lines 28-32)
\* ------------------------------------------------------------------------
PriceCol(cols) == IF "adj_close" \in cols THEN "adj_close" ELSE "close"

RECURSIVE GCD(_, _)
GCD(a, b) == IF b = 0 THEN a ELSE GCD(b, a % b)

Abs(x) == IF x < 0 THEN -x ELSE x

NaN == <<"nan", 0, 0>>

\* np.log(p / q) in IEEE arithmetic
LogReturn(p, q) ==
    IF q = 0 THEN (IF p > 0 THEN <<"inf", 0, 0>> ELSE NaN)
    ELSE IF p = 0 THEN <<"-inf", 0, 0>>
    ELSE IF (p > 0) # (q > 0) THEN NaN
    ELSE LET g == GCD(Abs(p), Abs(q)) IN <<"fin", Abs(p) \div g, Abs(q) \div g>>

\* df[price_col] / df[price_col].shift(1): the first row has no predecessor
LogReturns(rows, col) ==
    [i \in 1..Len(rows) |->
        IF i = 1 THEN NaN ELSE LogReturn(rows[i][col], rows[i - 1][col])]

NoVol == [ok |-> FALSE, window |-> <<>>]

\* variant of RealizedVol that counts a null observation towards the window
RealizedVolCountsNull(lr) ==
    [i \in 1..Len(lr) |->
        IF i >= Window
        THEN [ok |-> TRUE, window |-> SubSeq(lr, i - Window + 1, i)]
        ELSE NoVol]

\* rolling(window=21).std() * sqrt(252): defined where the trailing 21
\* observations are all finite numbers
RealizedVol(lr) ==
    [i \in 1..Len(lr) |->
        IF i >= Window /\ \A j \in (i - Window + 1)..i : lr[j][1] = "fin"
        THEN [ok |-> TRUE, window |-> SubSeq(lr, i - Window + 1, i)]
        ELSE NoVol]

WithFeatures(rows, cols) ==
    LET lr == LogReturns(rows, PriceCol(cols))
        rv == RealizedVol(lr)
        nc == cols \cup {"log_return", "realized_vol"}
    IN  [i \in 1..Len(rows) |->
            [c \in nc |-> IF c = "log_return" THEN lr[i]
                          ELSE IF c = "realized_vol" THEN rv[i]
                          ELSE rows[i][c]]]

\* ------------------------------------------------------------------------
\* 4. Final cleanup (processing.py lines 34-38)
\* ------------------------------------------------------------------------
\* variant of DropUndefined that drops only the rows without a log return
DropNoReturnOnly(rows) ==
    SelectSeq(rows, LAMBDA r : r["log_return"] # NaN)

\* df.dropna(subset=['log_return', 'realized_vol'])
DropUndefined(rows) ==
    SelectSeq(rows, LAMBDA r : r["log_return"] # NaN /\ r["realized_vol"].ok)

\* lines 20-38 on the cleaned rows: <<aligned rows, result>>
Derive(cols, rows) ==
    IF rows = <<>>
    THEN \* df.index.min() is NaT and pd.date_range(NaT, NaT) raises ValueError
         <<(<<>>), [status |-> "ValueError", frame |-> Frame(cols, <<>>)]>>
    ELSE LET al == Align(rows)
         IN  <<al, [status |-> "ok",
                    frame |-> Frame(cols \cup {"log_return", "realized_vol"},
                                    DropUndefined(WithFeatures(al, cols)))]>>

NoResult == [status |-> "none", frame |-> Frame({}, <<>>)]

\* DataProcessor.clean_and_process(df): every <<cleaned, aligned, result>>
\* the call can produce
CleanAndProcess(df) ==
    IF df.rows = <<>>
    THEN {<<(<<>>), (<<>>), [status |-> "ok", frame |-> df]>>}
    ELSE {LET cl == PositiveClose(kept)
              d == Derive(df.columns, cl)
          IN  <<cl, d[1], d[2]>> : kept \in SortDedup(df.rows)}

\* ------------------------------------------------------------------------
\* Raw inputs of the processing specification
\* ------------------------------------------------------------------------
Closes == {0, 1, 2}

SmallCols == {"date", "close"}

\* Monday of the first week, then Saturday of the first week to day MaxDay
SmallDays == {0} \cup 5..MaxDay

SmallRow == {[c \in SmallCols |-> IF c = "date" THEN d ELSE p] : d \in SmallDays, p \in Closes}

\* arbitrary short inputs: any order, duplicate dates, weekends, gaps,
\* non-positive closes
SmallInputs ==
    {Frame(SmallCols, s) : s \in UNION {[1..n -> SmallRow] : n \in 0..MaxRows}}

\* price of the k-th business day of a generated series
Price(mode, k) ==
    CASE mode = "up" -> k + 1
      [] mode = "tri" -> 1 + ((k * (k + 1)) \div 2)
      [] mode = "flat" -> 3
      [] mode = "down" -> 2 * MaxN - k
      [] OTHER -> 1 + (k % 3)

\* a series over the business days s .. s+n-1 (counted from Monday 0) from
\* which the block of len business days starting at offset at is missing
Series(s, n, cmode, amode, at, len) ==
    LET cols == IF amode = "none" THEN {"date", "close"}
                ELSE {"date", "close", "adj_close"}
        ks == SelectSeq([i \in 1..n |-> i - 1], LAMBDA k : k < at \/ k >= at + len)
    IN  Frame(cols,
              [i \in 1..Len(ks) |->
                  [c \in cols |-> IF c = "date" THEN BDay(s + ks[i])
                                  ELSE IF c = "close" THEN Price(cmode, ks[i])
                                  ELSE Price(amode, ks[i])]])

\* <<close, adj_close>> price patterns of the generated series
PriceModes == {<<"up", "none">>, <<"tri", "none">>, <<"saw", "none">>,
               <<"up", "tri">>, <<"up", "down">>}

HoleAt == {3, 18, 24}

HoleLen == {5, 6, 8}

SeriesInputs ==
    {Series(s, n, m[1], m[2], 0, 0) : s \in 0..4, n \in 1..MaxN, m \in PriceModes}
    \cup
    {Series(0, n, m[1], m[2], at, len) :
        n \in 1..MaxN, m \in {<<"up", "none">>, <<"flat", "tri">>},
        at \in HoleAt, len \in HoleLen}

ProcInputs == SmallInputs \cup SeriesInputs

\* ------------------------------------------------------------------------
\* Values the variables of a specification hold while another one runs
\* ------------------------------------------------------------------------
NoExc == [kind |-> "", text |-> ""]

NoCall == [source |-> "", start |-> <<>>, end |-> <<>>, result |-> "none",
           outcome |-> "uncalled"]

NoResponse == [code |-> 0, status |-> "", detail |-> <<>>]

NoRow == [exists |-> FALSE, status |-> "", progress_step |-> "",
          progress_pct |-> 0, error_message |-> <<>>]

ProcIdle ==
    /\ raw = Frame({}, <<>>)
    /\ cleaned = <<>>
    /\ aligned = <<>>
    /\ out = NoResult
    /\ out2 = NoResult
    /\ ppc = "idle"

IngIdle ==
    /\ ingEnv = {}
    /\ alpaca = "None"
    /\ ipc = "idle"
    /\ call = NoCall
    /\ provCalls = <<>>
    /\ warned = <<>>

SvcIdle ==
    /\ env = {}
    /\ proc = "idle"
    /\ provider = "zero"
    /\ pc = "idle"
    /\ payload = <<>>
    /\ run_id = <<>>
    /\ sb = FALSE
    /\ runRow = NoRow
    /\ results = {}
    /\ timeseries = 0
    /\ mi = 1
    /\ log = <<>>
    /\ caught = NoExc
    /\ response = NoResponse

\* ------------------------------------------------------------------------
\* SpecProc: clean_and_process applied to a raw input, then to its own output
\* ------------------------------------------------------------------------
ProcInit ==
    /\ raw \in ProcInputs
    /\ cleaned = <<>>
    /\ aligned = <<>>
    /\ out = NoResult
    /\ out2 = NoResult
    /\ ppc = "raw"
    /\ IngIdle
    /\ SvcIdle

\* out = DataProcessor().clean_and_process(raw, ticker)
Process ==
    /\ ppc = "raw"
    /\ \E t \in CleanAndProcess(raw) :
          /\ cleaned' = t[1]
          /\ aligned' = t[2]
          /\ out' = t[3]
    /\ ppc' = "processed"
    /\ UNCHANGED <<raw, out2, ingVars, svcVars>>

\* out2 = DataProcessor().clean_and_process(out, ticker)
Reprocess ==
    /\ ppc = "processed"
    /\ out.status = "ok"
    /\ \E t \in CleanAndProcess(out.frame) : out2' = t[3]
    /\ ppc' = "reprocessed"
    /\ UNCHANGED <<raw, cleaned, aligned, out, ingVars, svcVars>>

ProcNext == Process \/ Reprocess

SpecProc == ProcInit /\ [][ProcNext]_vars

\* ------------------------------------------------------------------------
\* Properties of clean_and_process (checked under SpecProc)
\* ------------------------------------------------------------------------
RowAt(rows, d) == rows[CHOOSE i \in 1..Len(rows) : rows[i]["date"] = d]

BDaysBetween(a, b) == {d \in (a + 1)..(b - 1) : IsBusinessDay(d)}

\* the business days on which the cleaned rows have a row
Present == {d \in Dates(cleaned) : IsBusinessDay(d)}

\* <<a, b>>: two present rows with only missing business days between them
Runs == {ab \in Present \X Present :
            /\ ab[1] < ab[2]
            /\ BDaysBetween(ab[1], ab[2]) # {}
            /\ BDaysBetween(ab[1], ab[2]) \cap Present = {}}

RunLen(ab) == Cardinality(BDaysBetween(ab[1], ab[2]))

\* d carries the values of the row of date a in the aligned frame
FilledFrom(a, d) ==
    /\ d \in Dates(aligned)
    /\ RowAt(aligned, d) = [RowAt(cleaned, a) EXCEPT !["date"] = d]

Processed == ppc \in {"processed", "reprocessed"} /\ out.status = "ok"

\* C1 as the specification states it: a run of exactly 5 missing business
\* days is filled entirely from the last present row, and of a run of exactly
\* 6 none is filled (all 6 dates are dropped).
C1_AsStated ==
    Processed =>
        \A ab \in Runs :
            /\ RunLen(ab) = 5 =>
                  \A d \in BDaysBetween(ab[1], ab[2]) : FilledFrom(ab[1], d)
            /\ RunLen(ab) = 6 =>
                  \A d \in BDaysBetween(ab[1], ab[2]) : d \notin Dates(aligned)

\* C1 (amended): in a run of missing business days between two present rows
\* the first 5 dates are filled from the last present row and every later
\* date of the run is dropped: a run of 5 is filled entirely, a run of 6
\* keeps its first 5 dates and loses only the 6th.
C1_FfillFirstFive ==
    Processed =>
        \A ab \in Runs :
            \A d \in BDaysBetween(ab[1], ab[2]) :
                IF Cardinality(BDaysBetween(ab[1], d + 1)) <= 5
                THEN FilledFrom(ab[1], d)
                ELSE d \notin Dates(aligned)

C1_Witness ==
    /\ ppc = "processed"
    /\ \E ab \in Runs :
          /\ RunLen(ab) = 6
          /\ Cardinality(BDaysBetween(ab[1], ab[2]) \cap Dates(aligned)) = 5

StrictlyIncreasingDates(rows) ==
    \A i \in 1..(Len(rows) - 1) : rows[i]["date"] < rows[i + 1]["date"]

\* C2 as the specification states it: clean_and_process applied to its own
\* output returns that output.
C2_AsStated == ppc = "reprocessed" => out2 = out

\* C2 (amended): clean_and_process returns its own output unchanged only
\* when that output is empty.  Of a non-empty output O the second application
\* drops the earliest date again, so it never returns O; when the dates of O
\* are consecutive business days it returns exactly the rows of O after the
\* first 21, with the same log_return and realized_vol.
C2_SecondApplication ==
    ppc = "reprocessed" =>
        LET o == out.frame.rows
            o2 == out2.frame.rows
        IN  /\ out2.status = "ok"
            /\ o = <<>> => out2 = out
            /\ o # <<>> =>
                  /\ out2 # out
                  /\ o[1]["date"] \notin Dates(o2)
                  /\ Len(BusinessRange(o[1]["date"], o[Len(o)]["date"])) = Len(o)
                        => o2 = SubSeq(o, 22, Len(o))

C2_Witness ==
    /\ ppc = "reprocessed"
    /\ Len(out.frame.rows) > 21
    /\ out2.frame.rows # <<>>
    /\ Len(out2.frame.rows) = Len(out.frame.rows) - 21

\* C3 as the specification states it: for every raw input (the non-empty
\* input whose closes are all <= 0 included) the call produces a result, and
\* its dates are strictly increasing, without duplicates, on Monday-Friday.
C3_AsStated ==
    ppc # "raw" =>
        /\ out.status = "ok"
        /\ StrictlyIncreasingDates(aligned)
        /\ StrictlyIncreasingDates(out.frame.rows)
        /\ \A d \in Dates(aligned) \cup Dates(out.frame.rows) : IsBusinessDay(d)

\* the raw input is N consecutive business days, without duplicates or gaps,
\* whose prices (close, and adj_close where the column exists) are positive
\* and strictly increasing in time
ConsecutiveIncreasing ==
    LET r == raw.rows
        n == Len(r)
    IN  /\ n >= 1
        /\ Cardinality(Dates(r)) = n
        /\ \A d \in Dates(r) : IsBusinessDay(d)
        /\ Len(BusinessRange(SetMin(Dates(r)), SetMax(Dates(r)))) = n
        /\ \A c \in raw.columns \ {"date"} :
              \A i, j \in 1..n :
                  /\ r[i][c] > 0
                  /\ r[i]["date"] < r[j]["date"] => r[i][c] < r[j][c]

\* C4: for N consecutive business days of strictly increasing positive
\* prices the result has N - 21 rows when N >= 22 (none below that): the
\* first 21 dates are dropped, the others kept, and every row has a defined
\* realized_vol and a log_return greater than 0.
C4_DropsFirst21 ==
    (ppc # "raw" /\ ConsecutiveIncreasing) =>
        LET n == Len(raw.rows)
            o == out.frame.rows
            ds == Dates(raw.rows)
        IN  /\ out.status = "ok"
            /\ Len(o) = IF n >= 22 THEN n - 21 ELSE 0
            /\ Dates(o) = {d \in ds : Cardinality({e \in ds : e < d}) >= 21}
            /\ \A i \in 1..Len(o) :
                  /\ o[i]["realized_vol"].ok
                  /\ o[i]["log_return"][1] = "fin"
                  /\ o[i]["log_return"][2] > o[i]["log_return"][3]

C4_Witness ==
    /\ ppc = "processed"
    /\ ConsecutiveIncreasing
    /\ Len(raw.rows) = 30
    /\ Len(out.frame.rows) = 9

\* ------------------------------------------------------------------------
\* DataIngestion (ingestion.py)
\* ------------------------------------------------------------------------
AlpacaVars == {"ALPACA_API_KEY", "ALPACA_API_SECRET"}

\* start_date / end_date as the caller passes them: a date, a datetime, or a
\* string in any layout
DateArgs ==
    {[kind |-> k, ymd |-> <<2024, 1, 2>>, sep |-> "-"] : k \in {"date", "datetime"}}
    \cup {[kind |-> "str", ymd |-> <<2024, 1, 2>>, sep |-> x] : x \in {"-", "/"}}

\* _format_date: strftime("%Y-%m-%d") of a date or datetime, a string as it is
FormatDate(d) ==
    IF d.kind \in {"date", "datetime"}
    THEN <<d.ymd[1], "-", d.ymd[2], "-", d.ymd[3]>>
    ELSE <<d.ymd[1], d.sep, d.ymd[2], d.sep, d.ymd[3]>>

Sources == {"alpaca", "yahoo", "Alpaca", "csv"}

\* what a provider call does: returns bars, returns none, or throws
ProviderOutcomes == {"rows", "empty", "throws"}

\* _fetch_alpaca(ticker, start, end): <<result, provider calls>>
FetchAlpaca(client, start, end, outcome) ==
    IF client = "None" THEN <<"empty", <<>>>>
    ELSE <<(IF outcome = "rows" THEN "rows" ELSE "empty"),
           <<[provider |-> "alpaca", start |-> start, end |-> end]>>>>

\* variant of FetchYahoo without the except clause
FetchYahooUncaught(start, end, outcome) ==
    <<(IF outcome = "rows" THEN "rows"
       ELSE IF outcome = "empty" THEN "empty" ELSE "Exception"),
      <<[provider |-> "yahoo", start |-> start, end |-> end]>>>>

\* _fetch_yahoo(ticker, start, end): <<result, provider calls>>
FetchYahoo(start, end, outcome) ==
    <<(IF outcome = "rows" THEN "rows" ELSE "empty"),
      <<[provider |-> "yahoo", start |-> start, end |-> end]>>>>

\* fetch_data(ticker, start_date, end_date, source): <<result, provider calls>>
FetchDataResult(client, start_date, end_date, source, outcome) ==
    LET start_str == FormatDate(start_date)
        end_str == FormatDate(end_date)
    IN  IF source = "alpaca" THEN FetchAlpaca(client, start_str, end_str, outcome)
        ELSE IF source = "yahoo" THEN FetchYahoo(start_str, end_str, outcome)
        ELSE <<"ValueError", <<>>>>

IngInit ==
    /\ ingEnv \in SUBSET AlpacaVars
    /\ alpaca = "None"
    /\ ipc = "new"
    /\ call = NoCall
    /\ provCalls = <<>>
    /\ warned = <<>>
    /\ ProcIdle
    /\ SvcIdle

\* DataIngestion.__init__
Construct ==
    /\ ipc = "new"
    /\ \/ /\ AlpacaVars \subseteq ingEnv
          /\ \/ alpaca' = "client" /\ warned' = warned
             \/ /\ alpaca' = "None"
                /\ warned' = Append(warned, "Failed to initialize Alpaca API")
       \/ /\ ~(AlpacaVars \subseteq ingEnv)
          /\ alpaca' = "None"
          /\ warned' = Append(warned, "Alpaca credentials not found")
    /\ ipc' = "ready"
    /\ UNCHANGED <<ingEnv, call, provCalls, procVars, svcVars>>

\* DataIngestion.fetch_data
FetchData ==
    /\ ipc = "ready"
    /\ \E source \in Sources, s \in DateArgs, e \in DateArgs, o \in ProviderOutcomes :
          LET r == FetchDataResult(alpaca, s, e, source, o)
          IN  /\ call' = [source |-> source, start |-> FormatDate(s),
                          end |-> FormatDate(e), result |-> r[1],
                          outcome |-> IF r[2] = <<>> THEN "uncalled" ELSE o]
              /\ provCalls' = r[2]
    /\ ipc' = "returned"
    /\ UNCHANGED <<ingEnv, alpaca, warned, procVars, svcVars>>

IngNext == Construct \/ FetchData

SpecIngest == IngInit /\ [][IngNext]_vars

\* ------------------------------------------------------------------------
\* Properties of DataIngestion (checked under SpecIngest)
\* ------------------------------------------------------------------------
\* C5: fetch_data raises exactly when the source is neither 'alpaca' nor
\* 'yahoo', and then calls no provider; for a recognized source it returns,
\* and returns an empty result when the Alpaca credentials were absent at
\* construction (no provider call is made) or when the provider call throws.
C5_RaisesOnlyOnUnknownSource ==
    ipc = "returned" =>
        /\ call.result \in {"ValueError", "empty", "rows"}
        /\ call.result = "ValueError" <=> call.source \notin {"alpaca", "yahoo"}
        /\ call.source \notin {"alpaca", "yahoo"} => provCalls = <<>>
        /\ (call.source = "alpaca" /\ ~(AlpacaVars \subseteq ingEnv)) =>
              (call.result = "empty" /\ provCalls = <<>>)
        /\ call.outcome = "throws" => call.result = "empty"
        /\ call.result = "rows" => call.outcome = "rows"

C5_Witness ==
    /\ ipc = "returned"
    /\ call.source = "yahoo"
    /\ call.outcome = "throws"
    /\ call.result = "empty"
    /\ Len(provCalls) = 1

\* ------------------------------------------------------------------------
\* Process start-up (main.py lines 15-24)
\* ------------------------------------------------------------------------
StoreVars == {"SUPABASE_URL", "SUPABASE_SERVICE_ROLE_KEY"}

REQUIRED_ENV_VARS == StoreVars \cup AlpacaVars

\* missing_vars = [v for v in REQUIRED_ENV_VARS if not os.getenv(v)]
MissingVars(e) == REQUIRED_ENV_VARS \ e

\* importing main.py: RuntimeError when a required variable is missing
Startup ==
    /\ proc = "init"
    /\ proc' = IF MissingVars(env) # {} THEN "stopped" ELSE "serving"
    /\ UNCHANGED <<env, provider, pc, payload, run_id, sb, runRow, results,
                   timeseries, mi, log, caught, response, procVars, ingVars>>

\* ------------------------------------------------------------------------
\* run_compute_job (main.py lines 44-156)
\* ------------------------------------------------------------------------
MaxPayload == 3

Whitespace == {" "}

Chars == {" ", "a"}

Payloads == UNION {[1..n -> Chars] : n \in 0..MaxPayload}

RECURSIVE LStrip(_)
LStrip(s) == IF s # <<>> /\ Head(s) \in Whitespace THEN LStrip(Tail(s)) ELSE s

RECURSIVE RStrip(_)
RStrip(s) ==
    IF s # <<>> /\ s[Len(s)] \in Whitespace THEN RStrip(SubSeq(s, 1, Len(s) - 1)) ELSE s

\* variant of Strip that keeps the whitespace
StripNothing(s) == s

\* str.strip()
Strip(s) == RStrip(LStrip(s))

\* the run the store may hold a row for
StoredRunId == <<"a">>

models == <<"arima_garch", "xgboost", "lstm">>

TsRows == 5

\* exceptions a store call can raise
StoreErrors == {[kind |-> "APIError", text |-> "storage"],
                [kind |-> "ConnectError", text |-> "timeout"]}

NotFound == [kind |-> "RuntimeError", text |-> "run_id not found in runs table"]

\* err = f"{type(e).__name__}: {str(e)}"
ErrMessage(e) == <<e.kind, ": ", e.text>>

\* how a store call ends: it returns, or it raises after the store did or did
\* not apply it
CallOutcomes ==
    {[ok |-> TRUE, applied |-> TRUE, exc |-> NoExc]}
    \cup {[ok |-> FALSE, applied |-> a, exc |-> e] : a \in BOOLEAN, e \in StoreErrors}

Entry(op, o, status, msg, model) ==
    [op |-> op, ok |-> o.ok, exc |-> o.exc, status |-> status, msg |-> msg,
     model |-> model, data |-> FALSE]

\* sb.table("runs").update(fields).eq("run_id", rid): the row, when there is one
ApplyUpdate(row, rid, fields) ==
    IF row.exists /\ rid = StoredRunId
    THEN [f \in DOMAIN row |-> IF f \in DOMAIN fields THEN fields[f] ELSE row[f]]
    ELSE row

\* except Exception as e (line 140)
Throw(e) ==
    /\ caught' = e
    /\ pc' = "mark_failed"

\* one update of table runs inside the try block
UpdateRun(op, fields, next) ==
    \E o \in CallOutcomes :
        /\ log' = Append(log, Entry(op, o,
                                    IF "status" \in DOMAIN fields THEN fields.status ELSE "",
                                    <<>>, ""))
        /\ runRow' = IF o.applied THEN ApplyUpdate(runRow, run_id, fields) ELSE runRow
        /\ IF o.ok THEN pc' = next /\ caught' = caught ELSE Throw(o.exc)

SvcInit ==
    /\ env \in SUBSET REQUIRED_ENV_VARS
    /\ proc = "init"
    /\ provider \in {"zero", "rows"}
    /\ pc = "idle"
    /\ payload = <<>>
    /\ run_id = <<>>
    /\ sb = FALSE
    /\ runRow \in {NoRow, [exists |-> TRUE, status |-> "queued", progress_step |-> "queued",
                            progress_pct |-> 0, error_message |-> <<>>]}
    /\ results = {}
    /\ timeseries = 0
    /\ mi = 1
    /\ log = <<>>
    /\ caught = NoExc
    /\ response = NoResponse
    /\ ProcIdle
    /\ IngIdle

\* lines 46-50: strip the identifier, reject an empty one
Receive ==
    /\ proc = "serving"
    /\ pc = "idle"
    /\ \E p \in Payloads :
          /\ payload' = p
          /\ run_id' = Strip(p)
          /\ IF Strip(p) = <<>>
             THEN /\ response' = [code |-> 400, status |-> "",
                                  detail |-> <<"run_id must be non-empty">>]
                  /\ pc' = "done"
             ELSE /\ response' = response
                  /\ pc' = "create_client"
    /\ UNCHANGED <<env, proc, provider, sb, runRow, results, timeseries, mi, log,
                   caught, procVars, ingVars>>

\* line 52: sb = supabase(), outside the try block: an exception of
\* create_client leaves the handler unhandled
CreateClient ==
    /\ pc = "create_client"
    /\ \/ /\ sb' = TRUE
          /\ pc' = "mark_running"
          /\ response' = response
       \/ /\ sb' = FALSE
          /\ pc' = "done"
          /\ response' = [code |-> 500, status |-> "",
                          detail |-> <<"Internal Server Error">>]
    /\ UNCHANGED <<env, proc, provider, payload, run_id, runRow, results, timeseries,
                   mi, log, caught, procVars, ingVars>>

\* lines 56-61
MarkRunning ==
    /\ pc = "mark_running"
    /\ UpdateRun("update_running",
                 [status |-> "running", progress_step |-> "starting",
                  progress_pct |-> 5, error_message |-> <<>>],
                 "load_config")
    /\ UNCHANGED <<env, proc, provider, payload, run_id, sb, results, timeseries, mi,
                   response, procVars, ingVars>>

\* lines 64-71: select(...).single().execute().  The call raises (as it may
\* also do for a missing row), or it returns the row, or it returns no data
\* and line 66 raises RuntimeError
LoadConfig ==
    /\ pc = "load_config"
    /\ \/ \E e \in StoreErrors :
             /\ log' = Append(log, Entry("select_config",
                                         [ok |-> FALSE, exc |-> e], "", <<>>, ""))
             /\ Throw(e)
       \/ /\ runRow.exists /\ run_id = StoredRunId
          /\ log' = Append(log, [Entry("select_config", [ok |-> TRUE, exc |-> NoExc],
                                       "", <<>>, "") EXCEPT !.data = TRUE])
          /\ pc' = "update_loaded"
          /\ caught' = caught
       \/ /\ ~(runRow.exists /\ run_id = StoredRunId)
          /\ log' = Append(log, Entry("select_config",
                                      [ok |-> TRUE, exc |-> NoExc], "", <<>>, ""))
          /\ Throw(NotFound)
    /\ UNCHANGED <<env, proc, provider, payload, run_id, sb, runRow, results,
                   timeseries, mi, response, procVars, ingVars>>

\* lines 73-76
UpdateLoaded ==
    /\ pc = "update_loaded"
    /\ UpdateRun("update_progress",
                 [progress_step |-> "loaded_config", progress_pct |-> 15],
                 "update_writing")
    /\ UNCHANGED <<env, proc, provider, payload, run_id, sb, results, timeseries, mi,
                   response, procVars, ingVars>>

\* lines 80-83
UpdateWriting ==
    /\ pc = "update_writing"
    /\ UpdateRun("update_progress",
                 [progress_step |-> "writing_results", progress_pct |-> 80],
                 "upsert_result")
    /\ UNCHANGED <<env, proc, provider, payload, run_id, sb, results, timeseries, mi,
                   response, procVars, ingVars>>

\* variant of UpsertResult that goes on after a failed upsert
UpsertResultContinues ==
    /\ pc = "upsert_result"
    /\ \E o \in CallOutcomes :
          /\ log' = Append(log, Entry("upsert_result", o, "", <<>>, models[mi]))
          /\ results' = IF o.applied THEN results \cup {models[mi]} ELSE results
          /\ caught' = caught
          /\ IF mi < Len(models)
             THEN mi' = mi + 1 /\ pc' = "upsert_result"
             ELSE mi' = mi /\ pc' = "upsert_timeseries"
    /\ UNCHANGED <<env, proc, provider, payload, run_id, sb, runRow, timeseries,
                   response, procVars, ingVars>>

\* lines 88-108: one pass of the loop over models
UpsertResult ==
    /\ pc = "upsert_result"
    /\ \E o \in CallOutcomes :
          /\ log' = Append(log, Entry("upsert_result", o, "", <<>>, models[mi]))
          /\ results' = IF o.applied THEN results \cup {models[mi]} ELSE results
          /\ IF o.ok
             THEN /\ caught' = caught
                  /\ IF mi < Len(models)
                     THEN mi' = mi + 1 /\ pc' = "upsert_result"
                     ELSE mi' = mi /\ pc' = "upsert_timeseries"
             ELSE mi' = mi /\ Throw(o.exc)
    /\ UNCHANGED <<env, proc, provider, payload, run_id, sb, runRow, timeseries,
                   response, procVars, ingVars>>

\* lines 113-129
UpsertTimeseries ==
    /\ pc = "upsert_timeseries"
    /\ \E o \in CallOutcomes :
          /\ log' = Append(log, Entry("upsert_timeseries", o, "", <<>>, "arima_garch"))
          /\ timeseries' = IF o.applied THEN timeseries + TsRows ELSE timeseries
          /\ IF o.ok THEN pc' = "mark_complete" /\ caught' = caught ELSE Throw(o.exc)
    /\ UNCHANGED <<env, proc, provider, payload, run_id, sb, runRow, results, mi,
                   response, procVars, ingVars>>

\* lines 132-138: the update, then return RunResponse(status="complete")
MarkComplete ==
    /\ pc = "mark_complete"
    /\ \E o \in CallOutcomes :
          /\ log' = Append(log, Entry("update_complete", o, "complete", <<>>, ""))
          /\ runRow' = IF o.applied
                       THEN ApplyUpdate(runRow, run_id,
                                        [status |-> "complete", progress_step |-> "done",
                                         progress_pct |-> 100])
                       ELSE runRow
          /\ IF o.ok
             THEN /\ response' = [code |-> 200, status |-> "complete", detail |-> <<>>]
                  /\ pc' = "done"
                  /\ caught' = caught
             ELSE /\ response' = response
                  /\ Throw(o.exc)
    /\ UNCHANGED <<env, proc, provider, payload, run_id, sb, results, timeseries, mi,
                   procVars, ingVars>>

\* variant of MarkFailed in which an exception of the update replaces the
\* caught one
MarkFailedSurfacesUpdateError ==
    /\ pc = "mark_failed"
    /\ \E o \in CallOutcomes :
          /\ log' = Append(log, Entry("update_failed", o, "failed", ErrMessage(caught), ""))
          /\ runRow' = IF o.applied
                       THEN ApplyUpdate(runRow, run_id,
                                        [status |-> "failed", progress_step |-> "error",
                                         progress_pct |-> 100,
                                         error_message |-> ErrMessage(caught)])
                       ELSE runRow
          /\ caught' = IF o.ok THEN caught ELSE o.exc
    /\ pc' = "raise_500"
    /\ UNCHANGED <<env, proc, provider, payload, run_id, sb, results, timeseries, mi,
                   response, procVars, ingVars>>

\* lines 140-154: build err, record the failure; an exception of that update
\* is dropped
MarkFailed ==
    /\ pc = "mark_failed"
    /\ \E o \in CallOutcomes :
          /\ log' = Append(log, Entry("update_failed", o, "failed", ErrMessage(caught), ""))
          /\ runRow' = IF o.applied
                       THEN ApplyUpdate(runRow, run_id,
                                        [status |-> "failed", progress_step |-> "error",
                                         progress_pct |-> 100,
                                         error_message |-> ErrMessage(caught)])
                       ELSE runRow
    /\ pc' = "raise_500"
    /\ UNCHANGED <<env, proc, provider, payload, run_id, sb, results, timeseries, mi,
                   caught, response, procVars, ingVars>>

\* line 156: raise HTTPException(status_code=500, detail=err)
RaiseServerError ==
    /\ pc = "raise_500"
    /\ response' = [code |-> 500, status |-> "", detail |-> ErrMessage(caught)]
    /\ pc' = "done"
    /\ UNCHANGED <<env, proc, provider, payload, run_id, sb, runRow, results,
                   timeseries, mi, log, caught, procVars, ingVars>>

Next ==
    \/ Startup
    \/ Receive
    \/ CreateClient
    \/ MarkRunning
    \/ LoadConfig
    \/ UpdateLoaded
    \/ UpdateWriting
    \/ UpsertResult
    \/ UpsertTimeseries
    \/ MarkComplete
    \/ MarkFailed
    \/ RaiseServerError

Init == SvcInit

Spec == Init /\ [][Next]_vars

\* ------------------------------------------------------------------------
\* Properties of start-up and run_compute_job (checked under Spec)
\* ------------------------------------------------------------------------
Last(q) == q[Len(q)]

\* positions of the store calls inside the try block that raised
Raised == {i \in 1..Len(log) : log[i].op # "update_failed" /\ ~log[i].ok}

\* the select that returned no row (line 66 raises)
NoData == {i \in 1..Len(log) : log[i].op = "select_config" /\ log[i].ok /\ ~log[i].data}

\* the exception raised inside the try block, NoExc when there is none
OriginalError ==
    IF Raised # {} THEN log[SetMin(Raised)].exc
    ELSE IF NoData # {} THEN NotFound
    ELSE NoExc

\* C6: a run request whose identifier is empty after trimming whitespace is
\* answered with the client error 400, and in that execution no store client
\* is created and no call reaches the run-record store or the result store.
C6_EmptyRunIdRejected ==
    (pc # "idle" /\ \A i \in 1..Len(payload) : payload[i] = " ") =>
        /\ pc = "done"
        /\ response.code = 400
        /\ sb = FALSE
        /\ log = <<>>
        /\ runRow.status \in {"", "queued"}
        /\ results = {}
        /\ timeseries = 0

C6_Witness ==
    /\ pc = "done"
    /\ payload = <<" ", " ">>
    /\ response.code = 400
    /\ log = <<>>

\* C7: when a step of the try block throws (marking running, loading the
\* config, the missing run row, a progress update, an upsert, marking
\* complete), the update to status 'failed', carrying "<kind>: <text>" of that
\* error, is issued before the 500 response; when that update throws too the
\* response still carries the original error.
C7_FailureRecordedThenSurfaced ==
    /\ OriginalError # NoExc => pc \in {"mark_failed", "raise_500", "done"}
    /\ (OriginalError # NoExc /\ pc \in {"raise_500", "done"}) =>
          /\ Last(log).op = "update_failed"
          /\ Last(log).status = "failed"
          /\ Last(log).msg = <<OriginalError.kind, ": ", OriginalError.text>>
    /\ (OriginalError # NoExc /\ pc = "done") =>
          /\ response.code = 500
          /\ response.detail = <<OriginalError.kind, ": ", OriginalError.text>>
    /\ (response.code = 500 /\ sb) =>
          (OriginalError # NoExc /\ Last(log).op = "update_failed")

C7_Witness ==
    /\ pc = "done"
    /\ Raised # {}
    /\ Last(log).op = "update_failed"
    /\ ~Last(log).ok
    /\ Last(log).exc # OriginalError
    /\ response.code = 500
    /\ response.detail = <<OriginalError.kind, ": ", OriginalError.text>>

\* C8 as the specification states it: a run for which the provider returns
\* zero rows, and in which no store call fails, ends with the run record in
\* status 'failed' with an error message, never in 'complete'.
C8_AsStated ==
    (/\ pc = "done"
     /\ provider = "zero"
     /\ sb
     /\ runRow.exists /\ run_id = StoredRunId
     /\ \A i \in 1..Len(log) : log[i].ok)
    => (/\ runRow.status = "failed"
        /\ runRow.error_message # <<>>
        /\ response.status # "complete")

\* C9 as the specification states it: start-up stops when a store credential
\* is missing, and goes on to serve when only provider credentials are.
C9_AsStated ==
    proc # "init" =>
        /\ ~(StoreVars \subseteq env) => proc = "stopped"
        /\ StoreVars \subseteq env => proc = "serving"

Before(i, op) == {j \in 1..(i - 1) : log[j].op = op /\ log[j].ok}

\* C10: in one execution with a non-empty run_id the first store call is the
\* update to status 'running'; the update to 'complete' is issued only after
\* the config row was read and the three run_results upserts and the
\* run_timeseries upsert returned, so never after one of these steps threw;
\* rows upserted before a failure stay in the store; and the response
\* 'complete' is returned only after the update to 'complete' returned.
C10_Lifecycle ==
    /\ log # <<>> => (log[1].op = "update_running" /\ log[1].status = "running")
    /\ \A i \in 1..Len(log) :
          log[i].op = "update_complete" =>
              /\ \A j \in 1..(i - 1) : log[j].ok
              /\ \E j \in Before(i, "select_config") : log[j].data
              /\ {log[j].model : j \in Before(i, "upsert_result")}
                    = {"arima_garch", "xgboost", "lstm"}
              /\ Before(i, "upsert_timeseries") # {}
    /\ \A i \in 1..Len(log) :
          (log[i].op = "upsert_result" /\ log[i].ok) => log[i].model \in results
    /\ response.status = "complete" =>
          (Last(log).op = "update_complete" /\ Last(log).ok /\ response.code = 200)
    /\ response.code = 200 => response.status = "complete"

C10_Witness ==
    /\ pc = "done"
    /\ response.code = 500
    /\ results = {"arima_garch", "xgboost"}
    /\ Last(log).op = "update_failed"
    /\ runRow.status = "failed"

====
